---- MODULE Spec2Model ----
(***************************************************************************)
(* node-portaudio: the stream adapters of src/index.ts.                    *)
(*                                                                         *)
(* AudioInput  (the capture adapter)  wraps one NodePA.AudioIn  handle.    *)
(* AudioOutput (the playback adapter) wraps one NodePA.AudioOut handle.    *)
(*                                                                         *)
(* The adapter methods and the closures they hand to the binding are       *)
(* translated from src/index.ts.  The native binding (node_pa.node) is not *)
(* part of src/: it is modelled as the asynchronous device engine that     *)
(* spec.md describes at its interface: every request it is handed stays    *)
(* outstanding until the engine completes it, a read or a write completes  *)
(* with or without an error, and a quit completes once the requests issued *)
(* before it have been flushed.                                            *)
(***************************************************************************)
EXTENDS Integers, Naturals, Sequences, FiniteSets, TLC

\* Bound of the model: the number of method calls made on the adapter.
MaxCalls == 4

\* Bound of the model: the number of method calls made when a capture and a
\* playback adapter are alive together.
MaxBothCalls == 3

\* _read(size: number = 1024)
DefaultSize == 1024

\* A size the consumer may ask for instead of the default.
OtherSize == 512

\* The absent argument (undefined).
Undefined == "undefined"

\* The argument lists a pull is made with: no argument, or a size.
SizeArgs == {<<>>, <<OtherSize>>}

\* The chunks a producer pushes.
Chunks == {"a", "b"}

\* The adapters: "in" an AudioInput, "out" an AudioOutput, each with its handle.
Adapters == {"in", "out"}

\* The values given as quit's cb: a function, nothing, a non-function value.
CbArgs == {"fn", Undefined, "notfn"}

VARIABLES
    made,        \* the adapters the program constructed
    calls,       \* number of method calls made so far; a call's number is its id
    started,     \* the handles audio.start() has been called on
    aborted,     \* the handles audio.abort() has been called on
    reaborted,   \* the handles abort() was called on when already stopped
    reads,       \* outstanding audio.read requests: [id, size]
    pulls,       \* every _read() call, in call order: [id, args]
    readLog,     \* every audio.read request the engine has observed, in order
    readOks,     \* ids of the reads the engine completed without an error
    queue,       \* Readable's delivery queue: the buffers given to this.push
    surfaced,    \* errors surfaced to the stream consumer
    writes,      \* outstanding audio.write requests: [id, chunk, cb], cb the id of
                 \* the write() call whose callback travels with the chunk
    pushed,      \* every write() call, in call order: [id, chunk]
    devWrites,   \* every audio.write request the engine has observed, in order
    writeCbs,    \* write callbacks invoked: [id, cb, err], id the request completed
    accepted,    \* the values write() returned, in call order
    finished,    \* the Writable has emitted "finish"
    quits,       \* outstanding audio.quit requests: [id, on, cb]
    quitCalls,   \* every quit() call made: [id, on, cb, user, pending], pending the
                 \* ids of the requests outstanding on the handle when it was made
    quitDone,    \* ids of the quit requests whose completion the engine signalled
    cbLog,       \* ids of the quit calls whose cb was invoked, one entry per invocation
    lastOp,      \* the step taken last
    lastOn       \* the adapter whose method or closure ran in that step

vars == <<made, calls, started, aborted, reaborted, reads, pulls, readLog, readOks,
          queue, surfaced, writes, pushed, devWrites, writeCbs, accepted, finished,
          quits, quitCalls, quitDone, cbLog, lastOp, lastOn>>

inVars == <<reads, pulls, readLog, readOks, queue, surfaced>>
outVars == <<writes, pushed, devWrites, writeCbs, accepted, finished>>
quitVars == <<quits, quitCalls, quitDone, cbLog>>
lifeVars == <<started, aborted, reaborted>>

\* The constructors: a fresh handle per adapter, nothing requested.
Fresh ==
    /\ calls = 0
    /\ started = {}
    /\ aborted = {}
    /\ reaborted = {}
    /\ reads = {}
    /\ pulls = <<>>
    /\ readLog = <<>>
    /\ readOks = {}
    /\ queue = <<>>
    /\ surfaced = <<>>
    /\ writes = {}
    /\ pushed = <<>>
    /\ devWrites = <<>>
    /\ writeCbs = <<>>
    /\ accepted = <<>>
    /\ finished = FALSE
    /\ quits = {}
    /\ quitCalls = <<>>
    /\ quitDone = {}
    /\ cbLog = <<>>
    /\ lastOp = "new"
    /\ lastOn = "none"

\* new AudioInput(options) or new AudioOutput(options).
Init ==
    /\ made \in {{"in"}, {"out"}}
    /\ Fresh

\* new AudioInput(options) and new AudioOutput(options).
InitBoth ==
    /\ made = Adapters
    /\ Fresh

\* The number of calls the model follows.
Budget == IF made = Adapters THEN MaxBothCalls ELSE MaxCalls

\* The quit calls made on adapter a whose completion the engine has signalled.
QuitCompleted(a) ==
    {k \in DOMAIN quitCalls : quitCalls[k].on = a /\ quitCalls[k].id \in quitDone}

\* spec.md's Stopped: abort() was called, or a quit has completed.
Stopped(a) == a \in aborted \/ QuitCompleted(a) # {}

----------------------------------------------------------------------------
(* AudioInput *)

\* _read taking 1024 bytes whatever size it is asked for.
ReadSizeFixed(args) == DefaultSize

\* The size _read passes on: its parameter, 1024 when the argument is absent.
ReadSize(args) == IF args = <<>> THEN DefaultSize ELSE args[1]

\* _read(...args): hands one read request to the binding; nothing else.
AudioInput_read(args) ==
    /\ "in" \in made
    /\ calls < Budget
    /\ calls' = calls + 1
    /\ pulls' = Append(pulls, [id |-> calls + 1, args |-> args])
    /\ reads' = reads \cup {[id |-> calls + 1, size |-> ReadSize(args)]}
    /\ readLog' = Append(readLog, [id |-> calls + 1, size |-> ReadSize(args)])
    /\ lastOp' = "read"
    /\ lastOn' = "in"
    /\ UNCHANGED <<made, readOks, queue, surfaced>>
    /\ UNCHANGED lifeVars
    /\ UNCHANGED outVars
    /\ UNCHANGED quitVars

\* ReadCallback without the test of err: the buffer is pushed whatever happened.
ReadCallbackNoTest(err, buf) == Append(queue, buf)

\* The closure _read gives to audio.read: (err, buf) => { if (!err) this.push(buf) }.
\* The value is the delivery queue after the closure has run.
ReadCallback(err, buf) == IF ~err THEN Append(queue, buf) ELSE queue

\* The engine completes an outstanding read, with a buffer or with an error,
\* and runs the closure it was given.
ReadDone(r, err) ==
    /\ r \in reads
    /\ reads' = reads \ {r}
    /\ readOks' = IF err THEN readOks ELSE readOks \cup {r.id}
    /\ queue' = ReadCallback(err, r)
    /\ lastOp' = IF err THEN "readErr" ELSE "readOk"
    /\ lastOn' = "in"
    /\ UNCHANGED <<made, calls, pulls, readLog, surfaced>>
    /\ UNCHANGED lifeVars
    /\ UNCHANGED outVars
    /\ UNCHANGED quitVars

\* start(): this.audio.start().
AudioInput_start ==
    /\ "in" \in made
    /\ calls < Budget
    /\ calls' = calls + 1
    /\ started' = started \cup {"in"}
    /\ lastOp' = "start"
    /\ lastOn' = "in"
    /\ UNCHANGED <<made, aborted, reaborted>>
    /\ UNCHANGED inVars
    /\ UNCHANGED outVars
    /\ UNCHANGED quitVars

\* abort(): this.audio.abort().
AudioInput_abort ==
    /\ "in" \in made
    /\ calls < Budget
    /\ calls' = calls + 1
    /\ aborted' = aborted \cup {"in"}
    /\ reaborted' = IF Stopped("in") THEN reaborted \cup {"in"} ELSE reaborted
    /\ lastOp' = "abort"
    /\ lastOn' = "in"
    /\ UNCHANGED <<made, started>>
    /\ UNCHANGED inVars
    /\ UNCHANGED outVars
    /\ UNCHANGED quitVars

\* quit() calling cb itself, at once, instead of leaving it to the closure.
AudioInput_quitAtOnce(cb) ==
    /\ "in" \in made
    /\ calls < Budget
    /\ calls' = calls + 1
    /\ quits' = quits \cup {[id |-> calls + 1, on |-> "in", cb |-> Undefined]}
    /\ quitCalls' = Append(quitCalls, [id |-> calls + 1, on |-> "in", cb |-> cb,
                                        user |-> TRUE,
                                        pending |-> {r.id : r \in reads}])
    /\ cbLog' = IF cb = "fn" THEN Append(cbLog, calls + 1) ELSE cbLog
    /\ lastOp' = "quit"
    /\ lastOn' = "in"
    /\ UNCHANGED <<made, quitDone>>
    /\ UNCHANGED lifeVars
    /\ UNCHANGED inVars
    /\ UNCHANGED outVars

\* quit(cb): hands one quit request, carrying a closure over cb, to the binding.
AudioInput_quit(cb) ==
    /\ "in" \in made
    /\ calls < Budget
    /\ calls' = calls + 1
    /\ quits' = quits \cup {[id |-> calls + 1, on |-> "in", cb |-> cb]}
    /\ quitCalls' = Append(quitCalls, [id |-> calls + 1, on |-> "in", cb |-> cb,
                                        user |-> TRUE,
                                        pending |-> {r.id : r \in reads}])
    /\ lastOp' = "quit"
    /\ lastOn' = "in"
    /\ UNCHANGED <<made, quitDone, cbLog>>
    /\ UNCHANGED lifeVars
    /\ UNCHANGED inVars
    /\ UNCHANGED outVars

\* The closure without the typeof test: whatever cb is given is called.
AudioInput_quitCallbackNoTest(id, cb) ==
    IF cb # Undefined THEN Append(cbLog, id) ELSE cbLog

\* The closure quit gives to audio.quit:
\* () => { if (cb && typeof cb === "function") cb() }, cb being the argument of
\* the quit call numbered id.  The value is cbLog after the closure has run.
AudioInput_quitCallback(id, cb) == IF cb = "fn" THEN Append(cbLog, id) ELSE cbLog

----------------------------------------------------------------------------
(* AudioOutput *)

\* What every write() does besides handing the chunk over.
WriteCalled(chunk) ==
    /\ "out" \in made
    /\ calls < Budget
    /\ calls' = calls + 1
    /\ pushed' = Append(pushed, [id |-> calls + 1, chunk |-> chunk])
    /\ lastOp' = "write"
    /\ lastOn' = "out"
    /\ UNCHANGED <<made, writeCbs, finished>>
    /\ UNCHANGED lifeVars
    /\ UNCHANGED inVars
    /\ UNCHANGED quitVars

\* write() putting the new request in front of the ones already handed over.
AudioOutput_writeInFront(chunk) ==
    /\ WriteCalled(chunk)
    /\ writes' = writes \cup {[id |-> calls + 1, chunk |-> chunk, cb |-> calls + 1]}
    /\ devWrites' = <<[id |-> calls + 1, chunk |-> chunk]>> \o devWrites
    /\ accepted' = Append(accepted, TRUE)

\* write() returning false while an earlier write is outstanding.
AudioOutput_writeBackpressure(chunk) ==
    /\ WriteCalled(chunk)
    /\ writes' = writes \cup {[id |-> calls + 1, chunk |-> chunk, cb |-> calls + 1]}
    /\ devWrites' = Append(devWrites, [id |-> calls + 1, chunk |-> chunk])
    /\ accepted' = Append(accepted, writes = {})

\* write() keeping one cb for the stream: a chunk travels with the cb of the
\* first write still outstanding.
AudioOutput_writeSharedCb(chunk) ==
    /\ WriteCalled(chunk)
    /\ writes' = writes \cup
           {[id |-> calls + 1, chunk |-> chunk,
             cb |-> IF writes = {} THEN calls + 1
                    ELSE CHOOSE i \in {w.id : w \in writes} :
                             \A w \in writes : i <= w.id]}
    /\ devWrites' = Append(devWrites, [id |-> calls + 1, chunk |-> chunk])
    /\ accepted' = Append(accepted, TRUE)

\* write() leaving the chunk to the Writable's buffer while a write is
\* outstanding, and handing nothing to the binding.
AudioOutput_writeHeldBack(chunk) ==
    /\ WriteCalled(chunk)
    /\ writes' = IF writes = {}
                 THEN {[id |-> calls + 1, chunk |-> chunk, cb |-> calls + 1]}
                 ELSE writes
    /\ devWrites' = IF writes = {}
                    THEN Append(devWrites, [id |-> calls + 1, chunk |-> chunk])
                    ELSE devWrites
    /\ accepted' = Append(accepted, TRUE)

\* write(chunk, encoding, cb): hands one write request, the chunk and its cb,
\* to the binding and returns true.
AudioOutput_write(chunk) ==
    /\ WriteCalled(chunk)
    /\ writes' = writes \cup {[id |-> calls + 1, chunk |-> chunk, cb |-> calls + 1]}
    /\ devWrites' = Append(devWrites, [id |-> calls + 1, chunk |-> chunk])
    /\ accepted' = Append(accepted, TRUE)

\* The engine completes an outstanding write, with or without an error, and
\* calls the cb that came with the chunk.
WriteDone(w, err) ==
    /\ w \in writes
    /\ writes' = writes \ {w}
    /\ writeCbs' = Append(writeCbs, [id |-> w.id, cb |-> w.cb, err |-> err])
    /\ lastOp' = IF err THEN "writeErr" ELSE "writeOk"
    /\ lastOn' = "out"
    /\ UNCHANGED <<made, calls, pushed, devWrites, accepted, finished>>
    /\ UNCHANGED lifeVars
    /\ UNCHANGED inVars
    /\ UNCHANGED quitVars

\* start(): this.audio.start().
AudioOutput_start ==
    /\ "out" \in made
    /\ calls < Budget
    /\ calls' = calls + 1
    /\ started' = started \cup {"out"}
    /\ lastOp' = "start"
    /\ lastOn' = "out"
    /\ UNCHANGED <<made, aborted, reaborted>>
    /\ UNCHANGED inVars
    /\ UNCHANGED outVars
    /\ UNCHANGED quitVars

\* abort() on an audio object that both adapters share.
AudioOutput_abortShared ==
    /\ "out" \in made
    /\ calls < Budget
    /\ calls' = calls + 1
    /\ aborted' = aborted \cup made
    /\ reaborted' = IF Stopped("out") THEN reaborted \cup {"out"} ELSE reaborted
    /\ lastOp' = "abort"
    /\ lastOn' = "out"
    /\ UNCHANGED <<made, started>>
    /\ UNCHANGED inVars
    /\ UNCHANGED outVars
    /\ UNCHANGED quitVars

\* abort(): this.audio.abort().
AudioOutput_abort ==
    /\ "out" \in made
    /\ calls < Budget
    /\ calls' = calls + 1
    /\ aborted' = aborted \cup {"out"}
    /\ reaborted' = IF Stopped("out") THEN reaborted \cup {"out"} ELSE reaborted
    /\ lastOp' = "abort"
    /\ lastOn' = "out"
    /\ UNCHANGED <<made, started>>
    /\ UNCHANGED inVars
    /\ UNCHANGED outVars
    /\ UNCHANGED quitVars

\* quit() calling cb itself, at once, instead of leaving it to the closure.
AudioOutput_quitAtOnce(cb, user) ==
    /\ quits' = quits \cup {[id |-> calls + 1, on |-> "out", cb |-> Undefined]}
    /\ quitCalls' = Append(quitCalls, [id |-> calls + 1, on |-> "out", cb |-> cb,
                                        user |-> user,
                                        pending |-> {w.id : w \in writes}])
    /\ cbLog' = IF cb = "fn" THEN Append(cbLog, calls + 1) ELSE cbLog
    /\ UNCHANGED quitDone

\* quit(cb): hands one quit request, carrying a closure over cb, to the binding.
\* user tells a call made by the caller from one made by the "finish" listener.
AudioOutput_quit(cb, user) ==
    /\ quits' = quits \cup {[id |-> calls + 1, on |-> "out", cb |-> cb]}
    /\ quitCalls' = Append(quitCalls, [id |-> calls + 1, on |-> "out", cb |-> cb,
                                        user |-> user,
                                        pending |-> {w.id : w \in writes}])
    /\ UNCHANGED <<quitDone, cbLog>>

\* quit(cb) called by the user of the adapter.
AudioOutput_quitCall(cb) ==
    /\ "out" \in made
    /\ calls < Budget
    /\ calls' = calls + 1
    /\ AudioOutput_quit(cb, TRUE)
    /\ lastOp' = "quit"
    /\ lastOn' = "out"
    /\ UNCHANGED made
    /\ UNCHANGED lifeVars
    /\ UNCHANGED inVars
    /\ UNCHANGED outVars

\* The constructor without its "finish" listener: the event changes nothing on
\* the handle.
AudioOutput_finishUnheard ==
    /\ "out" \in made
    /\ ~finished
    /\ calls < Budget
    /\ calls' = calls + 1
    /\ finished' = TRUE
    /\ lastOp' = "finish"
    /\ lastOn' = "out"
    /\ UNCHANGED <<made, writes, pushed, devWrites, writeCbs, accepted>>
    /\ UNCHANGED lifeVars
    /\ UNCHANGED inVars
    /\ UNCHANGED quitVars

\* this.on("finish", this.quit.bind(this)): the listener the constructor
\* registers.  The Writable emits "finish" once, with no argument, when the
\* producer has ended the stream.
AudioOutput_finish ==
    /\ "out" \in made
    /\ ~finished
    /\ calls < Budget
    /\ calls' = calls + 1
    /\ finished' = TRUE
    /\ AudioOutput_quit(Undefined, FALSE)
    /\ lastOp' = "finish"
    /\ lastOn' = "out"
    /\ UNCHANGED <<made, writes, pushed, devWrites, writeCbs, accepted>>
    /\ UNCHANGED lifeVars
    /\ UNCHANGED inVars

\* The closure calling the cb of the latest quit call (cb kept in a field of the
\* adapter) instead of the cb it closes over.
AudioOutput_quitCallbackLatest(id, cb) ==
    IF quitCalls[Len(quitCalls)].cb = "fn"
    THEN Append(cbLog, quitCalls[Len(quitCalls)].id)
    ELSE cbLog

\* The closure quit gives to audio.quit:
\* () => { if (cb && typeof cb === "function") cb() }.
AudioOutput_quitCallback(id, cb) == IF cb = "fn" THEN Append(cbLog, id) ELSE cbLog

----------------------------------------------------------------------------
(* The device engine's graceful stop *)

\* The closure of the adapter the quit was made on.
QuitCallback(q) ==
    IF q.on = "in" THEN AudioInput_quitCallback(q.id, q.cb)
    ELSE AudioOutput_quitCallback(q.id, q.cb)

\* The requests outstanding on the handle of adapter a.
Outstanding(a) == IF a = "in" THEN reads ELSE writes

\* Every request issued on its handle before quit request q has been completed.
Flushed(q) == \A r \in Outstanding(q.on) : r.id > q.id

\* The engine signals the completion of an outstanding quit, once what was
\* issued before it is flushed, and runs the closure it was given.
QuitDone(q) ==
    /\ q \in quits
    /\ Flushed(q)
    /\ quits' = quits \ {q}
    /\ quitDone' = quitDone \cup {q.id}
    /\ cbLog' = QuitCallback(q)
    /\ lastOp' = "quitDone"
    /\ lastOn' = q.on
    /\ UNCHANGED <<made, calls, quitCalls>>
    /\ UNCHANGED lifeVars
    /\ UNCHANGED inVars
    /\ UNCHANGED outVars

----------------------------------------------------------------------------
(* Properties *)

\* The quit call numbered id.
CallOf(id) == quitCalls[CHOOSE k \in DOMAIN quitCalls : quitCalls[k].id = id]

\* The number of times the cb of quit call id was invoked.
CbCount(id) == Cardinality({i \in DOMAIN cbLog : cbLog[i] = id})

\* C1: at most one device write is outstanding at any time on a playback
\* adapter, whatever the sequence of push calls.
C1_AtMostOneWrite == Cardinality(writes) <= 1

\* C2: at most one device read is outstanding at any time on a capture
\* adapter, whatever the sequence of pull calls.
C2_AtMostOneRead == Cardinality(reads) <= 1

\* C3: the chunks the device engine has received are, in order, a prefix of
\* the chunks pushed.
C3_WriteOrder ==
    /\ Len(devWrites) <= Len(pushed)
    /\ \A i \in DOMAIN devWrites : devWrites[i] = pushed[i]

\* C3 witness: two different chunks were pushed, the second while the first
\* write was still outstanding, and the engine has seen both.
C3_Witness ==
    /\ Len(devWrites) = 2
    /\ devWrites[1].chunk # devWrites[2].chunk
    /\ Cardinality(writes) = 2

\* C4: the delivery queue holds the buffers of the successful reads in the
\* order their read requests were issued.
C4_QueueInIssueOrder ==
    \A i, j \in DOMAIN queue : i < j => queue[i].id < queue[j].id

\* C5: a read completing with an error leaves the delivery queue unchanged,
\* surfaces no error and issues no read; only a pull issues a read.
C5_ReadErrorDropped ==
    [][ /\ (lastOp' = "readErr" =>
               /\ queue' = queue
               /\ surfaced' = surfaced
               /\ readLog' = readLog
               /\ reads' \subseteq reads)
        /\ (readLog' # readLog => lastOp' = "read") ]_vars

\* C5 witness: a read has just failed while the queue holds an earlier buffer
\* and another read is outstanding.
C5_Witness ==
    /\ lastOp = "readErr"
    /\ Len(queue) >= 1
    /\ reads # {}

\* C6: once abort() was called on a capture adapter, nothing is appended to the
\* delivery queue.
C6_NoDeliveryAfterAbort ==
    []["in" \in aborted => queue' = queue]_vars

\* C7: once abort() was called on a playback adapter, no write is submitted to
\* the device engine.
C7_NoWriteAfterAbort ==
    []["out" \in aborted => devWrites' = devWrites]_vars

\* C8: when the cb of a quit call has been invoked, every request issued on the
\* handle before that call has reached the device and been completed.
C8_QuitCbAfterFlush ==
    \A i \in DOMAIN cbLog :
        /\ \A r \in Outstanding(CallOf(cbLog[i]).on) : r.id > cbLog[i]
        /\ \A n \in DOMAIN pushed :
               (CallOf(cbLog[i]).on = "out" /\ pushed[n].id < cbLog[i]) =>
                   \E m \in DOMAIN devWrites : devWrites[m] = pushed[n]

\* C8 witness: quit(cb) was called on a playback adapter while two writes were
\* outstanding, and cb has been invoked.
C8_Witness ==
    \E k \in DOMAIN quitCalls :
           /\ quitCalls[k].on = "out"
           /\ Cardinality(quitCalls[k].pending) = 2
           /\ CbCount(quitCalls[k].id) = 1

\* C9: the cb of a quit call is invoked once when the engine has signalled that
\* call's completion, and not at all before; never twice, and never for the
\* completion of another call.
C9_QuitCbOnce ==
    \A k \in DOMAIN quitCalls :
        LET c == quitCalls[k] IN
        /\ CbCount(c.id) <= 1
        /\ (c.id \in quitDone /\ c.cb = "fn") => CbCount(c.id) = 1
        /\ c.id \notin quitDone => CbCount(c.id) = 0

\* C9 witness: quit was called twice, each time with a function; the engine
\* has signalled the second call's completion and not yet the first's.
C9_Witness ==
    /\ Len(quitCalls) = 2
    /\ quitCalls[1].cb = "fn"
    /\ quitCalls[2].cb = "fn"
    /\ quitDone = {quitCalls[2].id}
    /\ cbLog = <<quitCalls[2].id>>

\* C10: when a playback adapter's stream has emitted "finish", a quit request
\* that no caller made has been issued to the device engine for its handle.
C10_FinishQuits ==
    finished =>
        \E k \in DOMAIN quitCalls :
            /\ ~quitCalls[k].user
            /\ \/ quitCalls[k].id \in quitDone
               \/ \E q \in quits : q.id = quitCalls[k].id

\* C10 witness: "finish" was emitted, the caller never called quit, and a quit
\* request is outstanding at the engine.
C10_Witness ==
    /\ finished
    /\ Len(quitCalls) = 1
    /\ ~quitCalls[1].user
    /\ quits # {}

\* The steps in which the engine runs a closure or callback of the adapter.
Completions == {"readOk", "readErr", "writeOk", "writeErr", "quitDone"}

\* C11: once a quit has completed on an adapter, no read and no write is
\* handed to its handle.
C11_NoUseAfterQuit ==
    [][ /\ (QuitCompleted("in") # {} => readLog' = readLog)
        /\ (QuitCompleted("out") # {} => devWrites' = devWrites) ]_vars

\* C12: once an adapter is Stopped, start() does not reach its handle and the
\* handle's started state does not change.
C12_NoStartAfterStopped ==
    [][ \A a \in Adapters :
            Stopped(a) =>
                /\ ~(lastOp' = "start" /\ lastOn' = a)
                /\ (a \in started' <=> a \in started) ]_vars

\* C13: write() has returned true for every chunk pushed, whatever became of
\* the chunk's device write.
C13_AcceptedAtOnce ==
    /\ Len(accepted) = Len(pushed)
    /\ \A i \in DOMAIN accepted : accepted[i] = TRUE

\* C13 witness: a chunk was pushed and accepted while an earlier write was
\* outstanding, another write has failed, and the handle is aborted.
C13_Witness ==
    /\ lastOp = "write"
    /\ Cardinality(writes) = 2
    /\ \E i \in DOMAIN writeCbs : writeCbs[i].err
    /\ "out" \in aborted

\* C14: after abort() was called on an adapter that was already Stopped, no
\* read, write or quit completion callback of that adapter runs.
C14_NoCallbackAfterReabort ==
    [][ \A a \in reaborted : ~(lastOn' = a /\ lastOp' \in Completions) ]_vars

\* The callbacks invoked so far are each the cb of the write that completed,
\* each at most once, and a write is completed exactly when its cb has run.
OwnCallbacks ==
    /\ \A i \in DOMAIN writeCbs : writeCbs[i].cb = writeCbs[i].id
    /\ \A i, j \in DOMAIN writeCbs : writeCbs[i].cb = writeCbs[j].cb => i = j
    /\ \A n \in DOMAIN pushed :
           (\A w \in writes : w.id # pushed[n].id)
               <=> (\E i \in DOMAIN writeCbs : writeCbs[i].cb = pushed[n].id)

\* C15: the outcome of a chunk's write goes to that chunk's own cb and to no
\* other; a failed write changes nothing of the handle's lifecycle and a later
\* push is still submitted.
C15_OwnCallback ==
    [][ /\ OwnCallbacks'
        /\ (lastOp' = "writeErr" =>
               /\ UNCHANGED <<started, aborted, quits, quitDone, devWrites>>
               /\ writeCbs'[Len(writeCbs')].err)
        /\ (lastOp' = "write" => Len(devWrites') = Len(devWrites) + 1) ]_vars

\* C15 witness: a write has failed and its cb has run; the push made after it
\* has just been submitted.
C15_Witness ==
    /\ lastOp = "write"
    /\ \E i \in DOMAIN writeCbs :
           /\ writeCbs[i].err
           /\ \E w \in writes : w.id > writeCbs[i].id
    /\ aborted = {}

\* C16 as stated: when quit's cb has been invoked on a capture adapter, the
\* buffer of every read that was in flight at the quit call is in the queue.
C16_InFlightDelivered ==
    \A k \in DOMAIN quitCalls :
        (quitCalls[k].on = "in" /\ CbCount(quitCalls[k].id) >= 1) =>
            \A id \in quitCalls[k].pending :
                \E i \in DOMAIN queue : queue[i].id = id

\* C16 as amended: when quit's cb has been invoked on a capture adapter, every
\* read that was in flight at the quit call has completed, and the buffer of
\* each one that completed without an error is in the queue.
C16_InFlightSettled ==
    \A k \in DOMAIN quitCalls :
        (quitCalls[k].on = "in" /\ CbCount(quitCalls[k].id) >= 1) =>
            \A id \in quitCalls[k].pending :
                /\ \A r \in reads : r.id # id
                /\ id \in readOks => \E i \in DOMAIN queue : queue[i].id = id

\* C16 witness: quit(cb) was called with a read in flight; the read has
\* completed with a buffer and cb has been invoked.
C16_Witness ==
    \E k \in DOMAIN quitCalls :
        /\ quitCalls[k].on = "in"
        /\ CbCount(quitCalls[k].id) = 1
        /\ \E id \in quitCalls[k].pending : id \in readOks

\* C17: every _read call has handed exactly one read request to the engine,
\* of the size asked for, 1024 when no size was given; and a pull is taken in
\* every lifecycle state.
C17_PullForwarded ==
    /\ Len(readLog) = Len(pulls)
    /\ \A i \in DOMAIN pulls :
           /\ readLog[i].id = pulls[i].id
           /\ readLog[i].size = IF pulls[i].args = <<>> THEN DefaultSize
                                ELSE pulls[i].args[1]
    /\ ("in" \in made /\ calls < Budget) => ENABLED AudioInput_read(<<>>)

\* C17 witness: never started and already aborted, the adapter was pulled with
\* a size and then without one; two requests are outstanding.
C17_Witness ==
    /\ "in" \notin started
    /\ "in" \in aborted
    /\ Len(pulls) = 2
    /\ pulls[1].args = <<OtherSize>>
    /\ pulls[2].args = <<>>
    /\ Cardinality(reads) = 2

\* What belongs to the capture adapter and its handle.
InSide ==
    <<"in" \in started, "in" \in aborted, "in" \in reaborted,
      reads, pulls, readLog, readOks, queue, surfaced,
      {q \in quits : q.on = "in"},
      SelectSeq(quitCalls, LAMBDA c : c.on = "in"),
      QuitCompleted("in"),
      SelectSeq(cbLog, LAMBDA id : CallOf(id).on = "in")>>

\* What belongs to the playback adapter and its handle.
OutSide ==
    <<"out" \in started, "out" \in aborted, "out" \in reaborted,
      writes, pushed, devWrites, writeCbs, accepted, finished,
      {q \in quits : q.on = "out"},
      SelectSeq(quitCalls, LAMBDA c : c.on = "out"),
      QuitCompleted("out"),
      SelectSeq(cbLog, LAMBDA id : CallOf(id).on = "out")>>

\* C18: a step of one adapter, a method or a closure of its own, leaves
\* everything of the other adapter and its handle unchanged.
C18_OwnHandle ==
    [][ /\ (lastOn' = "out" => InSide' = InSide)
        /\ (lastOn' = "in" => OutSide' = OutSide) ]_vars

\* C18 witness: both adapters are alive, the capture adapter is started and
\* has a read in flight, and abort() has just been called on the playback one.
C18_Witness ==
    /\ made = Adapters
    /\ lastOp = "abort"
    /\ lastOn = "out"
    /\ "in" \in started
    /\ "in" \notin aborted
    /\ reads # {}

\* C19: once the quit raised by "finish" has been issued, every chunk pushed
\* before it is among the write requests the engine had by then.
C19_FinishAfterWrites ==
    \A k \in DOMAIN quitCalls :
        ~quitCalls[k].user =>
            \A n \in DOMAIN pushed :
                pushed[n].id < quitCalls[k].id =>
                    \E m \in DOMAIN devWrites :
                        /\ devWrites[m] = pushed[n]
                        /\ devWrites[m].id < quitCalls[k].id

\* C19 witness: two chunks were pushed back to back and "finish" followed
\* while both writes were outstanding.
C19_Witness ==
    /\ lastOp = "finish"
    /\ Len(pushed) = 2
    /\ Cardinality(writes) = 2

\* C20: a quit call given no cb or a non-function has exactly one quit request,
\* outstanding or completed, and its completion calls nothing; a cb that is
\* called is a function, called for its own quit's completion.
C20_QuitWithoutCb ==
    /\ \A k \in DOMAIN quitCalls :
           LET c == quitCalls[k] IN
           /\ (c.id \in quitDone) # (\E q \in quits : q.id = c.id /\ q.on = c.on)
           /\ Cardinality({q \in quits : q.id = c.id}) <= 1
           /\ c.cb # "fn" => CbCount(c.id) = 0
    /\ \A i \in DOMAIN cbLog :
           /\ CallOf(cbLog[i]).cb = "fn"
           /\ cbLog[i] \in quitDone

\* C20 witness: a quit without cb and a quit with a non-function have both
\* completed while a quit with a function is outstanding; nothing was called.
C20_Witness ==
    /\ Len(quitCalls) = 3
    /\ \E k \in DOMAIN quitCalls :
           quitCalls[k].cb = Undefined /\ quitCalls[k].id \in quitDone
    /\ \E k \in DOMAIN quitCalls :
           quitCalls[k].cb = "notfn" /\ quitCalls[k].id \in quitDone
    /\ \E q \in quits : q.cb = "fn"
    /\ cbLog = <<>>

----------------------------------------------------------------------------

Next ==
    \/ \E args \in SizeArgs : AudioInput_read(args)
    \/ \E r \in reads, err \in BOOLEAN : ReadDone(r, err)
    \/ AudioInput_start
    \/ AudioInput_abort
    \/ \E cb \in CbArgs : AudioInput_quit(cb)
    \/ \E chunk \in Chunks : AudioOutput_write(chunk)
    \/ \E w \in writes, err \in BOOLEAN : WriteDone(w, err)
    \/ AudioOutput_start
    \/ AudioOutput_abort
    \/ \E cb \in CbArgs : AudioOutput_quitCall(cb)
    \/ AudioOutput_finish
    \/ \E q \in quits : QuitDone(q)

Spec == Init /\ [][Next]_vars

\* A capture and a playback adapter alive together.
SpecBoth == InitBoth /\ [][Next]_vars

====
